---- MODULE Spec2Model ----
(***************************************************************************)
(* Forensic scoring engine of pinit-image-forensics (src/real_analysis.py) *)
(* and the way src/app.py calls it.                                        *)
(*                                                                         *)
(* Python floats are modelled as exact rationals (numerator, denominator); *)
(* round() is round-half-to-even, as in Python 3.  All weights of the      *)
(* code (0.5, 0.3, 1.8, 0.22) are decimal fractions, so the scaled integer *)
(* arithmetic below computes the same integers as the code.                *)
(*                                                                         *)
(* Specifications:                                                         *)
(*   SpecEla   _ela_metrics' statistics on a difference array              *)
(*   SpecRisk  risk_from_score on every score 0..100                       *)
(*   SpecAuth  compute_authenticity_score on every input combination       *)
(*   Spec      one analyze_image call, step by step, with its failures     *)
(*   SpecConc  several analyze_image calls sharing the uploads directory   *)
(*   SpecApp   the upload form and the Generate Report handler of app.py    *)
(***************************************************************************)
EXTENDS Integers, Sequences, FiniteSets, TLC

VARIABLES
    diff,       \* SpecEla: ImageChops.difference(img, recompressed), flattened
    ela,        \* SpecEla: the dict _ela_metrics returns, or None
    clsScore,   \* SpecRisk: the argument of risk_from_score
    clsLabel,   \* SpecRisk: the pair it returns, or None
    authIn,     \* SpecAuth: meta_score, ai_score, secure_bonus
    authOut,    \* SpecAuth: compute_authenticity_score per tamper_prob, or None
    req,        \* Spec: the image file and the arguments of analyze_image
    pc,         \* Spec: position inside analyze_image
    loc,        \* Spec: local variables of analyze_image computed so far
    result,     \* Spec: the dict analyze_image returned, or None
    failed,     \* Spec: the steps that raised or were recovered so far
    ppc,        \* SpecConc: position of each call inside _ela_metrics
    fs,         \* SpecConc: the scratch file at each scratch path, or None
    recomp,     \* SpecConc: whose recompressed pixels each call loaded
    cause,      \* SpecConc: why a call raised
    appPc,      \* SpecApp: position of the session in main_app
    upload,     \* SpecApp: the uploaded file and the form's widgets
    outcome     \* SpecApp: how the Generate Report handler ended, or None

vars == <<diff, ela, clsScore, clsLabel, authIn, authOut,
          req, pc, loc, result, failed, ppc, fs, recomp, cause,
          appPc, upload, outcome>>

elaVars == <<diff, ela>>
riskVars == <<clsScore, clsLabel>>
authVars == <<authIn, authOut>>
callVars == <<req, pc, loc, result, failed>>
concVars == <<ppc, fs, recomp, cause>>
appVars == <<appPc, upload, outcome>>

\* An optional value (Python's None or a value) is the empty set or a singleton.
None == {}
Some(v) == {v}

(***************************************************************************)
(* Arithmetic helpers                                                      *)
(***************************************************************************)
Min(a, b) == IF a <= b THEN a ELSE b
Max(a, b) == IF a >= b THEN a ELSE b

\* Python 3 round(n/d) for d > 0: nearest integer, ties to even.
RoundHalfEven(n, d) ==
    LET q == n \div d
        r == n % d
    IN  IF 2 * r > d \/ (2 * r = d /\ q % 2 = 1) THEN q + 1 ELSE q

RECURSIVE SumSeq(_)
SumSeq(s) == IF s = <<>> THEN 0 ELSE Head(s) + SumSeq(Tail(s))

\* The k-th smallest element (k from 1) of a non-empty sequence.
KthSmallest(s, k) ==
    CHOOSE v \in {s[i] : i \in DOMAIN s} :
        /\ Cardinality({i \in DOMAIN s : s[i] < v}) < k
        /\ Cardinality({i \in DOMAIN s : s[i] <= v}) >= k

(***************************************************************************)
(* _ela_metrics: the statistics and the mapped probability                 *)
(***************************************************************************)
MaxPixels == 1                  \* pixels of the modelled difference image
Channels == 3                   \* convert("RGB")
MaxByte == 255
DiffLevels == {0, 1, 2, 6, 26}  \* per-channel |img - recompressed| values drawn

\* ImageEnhance.Brightness(diff).enhance(10): each byte times 10, clipped.
BrightnessFactor == 10
Enhance(d) == Min(MaxByte, BrightnessFactor * d)

EnhancedArr(d) == [i \in DOMAIN d |-> Enhance(d[i])]

\* np.percentile(arr, 95), linear interpolation, as a numerator over 20.
Percentile95x20(arr) ==
    LET n  == Len(arr)
        r  == 19 * (n - 1)              \* 0.95 * (n - 1), times 20
        lo == r \div 20                 \* zero-based lower rank
        hi == Min(lo + 1, n - 1)
        a  == KthSmallest(arr, lo + 1)
        b  == KthSmallest(arr, hi + 1)
    IN  20 * a + (r - 20 * lo) * (b - a)

\* min(100.0, mean_val * 1.8 + p95 * 0.22), then int(round(.)).
TamperProb(sum, n, p20) ==
    LET num == 1800 * sum + 11 * n * p20
        den == 1000 * n
    IN  IF num >= 100 * den THEN 100 ELSE RoundHalfEven(num, den)

ElaMetrics(d) ==
    LET arr == EnhancedArr(d)
        n   == Len(arr)
        s   == SumSeq(arr)
        p20 == Percentile95x20(arr)
    IN  [ela_mean_x100 |-> RoundHalfEven(100 * s, n),
         ela_p95_x100 |-> 5 * p20,
         tampering_probability |-> TamperProb(s, n, p20)]

DiffArrays == UNION {[1..(Channels * k) -> DiffLevels] : k \in 1..MaxPixels}

ElaIdle == diff = <<>> /\ ela = None

ElaInit == diff \in DiffArrays /\ ela = None

ElaCompute ==
    /\ ela = None
    /\ ela' = Some(ElaMetrics(diff))
    /\ UNCHANGED diff

(***************************************************************************)
(* risk_from_score                                                         *)
(***************************************************************************)
MaxScore == 100

risk_from_score_MutGap(s) ==
    IF s > 90 THEN <<"Highly Authentic", "BLUE">>
    ELSE IF s >= 75 THEN <<"Low Risk", "GREEN">>
    ELSE IF s >= 60 THEN <<"Medium-High Risk", "AMBER">>
    ELSE <<"High Fraud Risk", "RED">>
risk_from_score(s) ==
    IF s >= 90 THEN <<"Highly Authentic", "BLUE">>
    ELSE IF s >= 75 THEN <<"Low Risk", "GREEN">>
    ELSE IF s >= 60 THEN <<"Medium-High Risk", "AMBER">>
    ELSE <<"High Fraud Risk", "RED">>

RiskIdle == clsScore = 0 /\ clsLabel = None

RiskInit == clsScore \in 0..MaxScore /\ clsLabel = None

RiskClassify ==
    /\ clsLabel = None
    /\ clsLabel' = Some(risk_from_score(clsScore))
    /\ UNCHANGED clsScore

(***************************************************************************)
(* compute_authenticity_score                                              *)
(***************************************************************************)
MinFloor == 5
SecureBonus == 10

\* Tenths: tamper_prob * 0.5 capped at 40, ai_score * 0.3 capped at 20,
\* 50 - meta_score * 0.5 floored at 0.
compute_authenticity_score_MutWeight(meta_score, tamper_prob, ai_score, secure_bonus) ==
    LET tamper_penalty == Min(1 * tamper_prob, 400)
        ai_penalty     == Min(3 * ai_score, 200)
        meta_penalty   == Max(0, 500 - 5 * meta_score)
        score10 == 1000 - (tamper_penalty + ai_penalty + meta_penalty)
                        + 10 * secure_bonus
    IN  Max(MinFloor, Min(MaxScore, RoundHalfEven(score10, 10)))
compute_authenticity_score_MutBonusSign(meta_score, tamper_prob, ai_score, secure_bonus) ==
    LET tamper_penalty == Min(5 * tamper_prob, 400)
        ai_penalty     == Min(3 * ai_score, 200)
        meta_penalty   == Max(0, 500 - 5 * meta_score)
        score10 == 1000 - (tamper_penalty + ai_penalty + meta_penalty)
                        - 10 * secure_bonus
    IN  Max(MinFloor, Min(MaxScore, RoundHalfEven(score10, 10)))
compute_authenticity_score_MutNoClamp(meta_score, tamper_prob, ai_score, secure_bonus) ==
    LET tamper_penalty == Min(5 * tamper_prob, 400)
        ai_penalty     == Min(3 * ai_score, 200)
        meta_penalty   == Max(0, 500 - 5 * meta_score)
        score10 == 1000 - (tamper_penalty + ai_penalty + meta_penalty)
                        + 10 * secure_bonus
    IN  Max(MinFloor, RoundHalfEven(score10, 10))
compute_authenticity_score(meta_score, tamper_prob, ai_score, secure_bonus) ==
    LET tamper_penalty == Min(5 * tamper_prob, 400)
        ai_penalty     == Min(3 * ai_score, 200)
        meta_penalty   == Max(0, 500 - 5 * meta_score)
        score10 == 1000 - (tamper_penalty + ai_penalty + meta_penalty)
                        + 10 * secure_bonus
    IN  Max(MinFloor, Min(MaxScore, RoundHalfEven(score10, 10)))

AuthIdle == authIn = [meta_score |-> 0, ai_score |-> 0, secure_bonus |-> 0] /\ authOut = None

AuthInit ==
    /\ authIn \in [meta_score : 0..MaxScore, ai_score : 0..MaxScore,
                   secure_bonus : {0, SecureBonus}]
    /\ authOut = None

\* The function applied to the drawn inputs for every tamper probability.
AuthCompute ==
    /\ authOut = None
    /\ authOut' = Some([t \in 0..MaxScore |->
                     compute_authenticity_score(authIn.meta_score, t,
                                                authIn.ai_score, authIn.secure_bonus)])
    /\ UNCHANGED authIn

(***************************************************************************)
(* Text: byte strings and str are sequences of one-character strings       *)
(***************************************************************************)
UpperAZ == <<"A", "B", "C", "D", "E", "F", "G", "H", "I", "J", "K", "L", "M",
             "N", "O", "P", "Q", "R", "S", "T", "U", "V", "W", "X", "Y", "Z">>
LowerAZ == <<"a", "b", "c", "d", "e", "f", "g", "h", "i", "j", "k", "l", "m",
             "n", "o", "p", "q", "r", "s", "t", "u", "v", "w", "x", "y", "z">>
HexDigits == {"0", "1", "2", "3", "4", "5", "6", "7", "8", "9",
              "a", "b", "c", "d", "e", "f", "A", "B", "C", "D", "E", "F"}

\* str.lower()
LowerChar(c) ==
    IF \E i \in DOMAIN UpperAZ : UpperAZ[i] = c
    THEN LowerAZ[CHOOSE i \in DOMAIN UpperAZ : UpperAZ[i] = c]
    ELSE c
RECURSIVE Lower(_)
Lower(s) == IF s = <<>> THEN <<>> ELSE <<LowerChar(Head(s))>> \o Lower(Tail(s))

\* str.strip()
Strip(s) ==
    LET keep == {i \in DOMAIN s : s[i] # " "}
    IN  IF keep = {} THEN <<>>
        ELSE SubSeq(s, CHOOSE i \in keep : \A j \in keep : i <= j,
                       CHOOSE i \in keep : \A j \in keep : i >= j)

\* x in s
Contains(x, s) ==
    \E i \in 1..(Len(s) - Len(x) + 1) : \A k \in DOMAIN x : s[i + k - 1] = x[k]

Unknown == <<"U", "n", "k", "n", "o", "w", "n">>

EditingTools ==
    {<<"p", "h", "o", "t", "o", "s", "h", "o", "p">>,
     <<"s", "n", "a", "p", "s", "e", "e", "d">>,
     <<"l", "i", "g", "h", "t", "r", "o", "o", "m">>,
     <<"g", "i", "m", "p">>}

GenerativeTools ==
    {<<"s", "t", "a", "b", "l", "e", " ", "d", "i", "f", "f", "u", "s", "i", "o", "n">>,
     <<"m", "i", "d", "j", "o", "u", "r", "n", "e", "y">>,
     <<"d", "a", "l", "l", "-", "e">>,
     <<"c", "o", "m", "f", "y", "u", "i">>,
     <<"a", "u", "t", "o", "m", "a", "t", "i", "c", "1", "1", "1", "1">>}

(***************************************************************************)
(* The inputs of analyze_image                                             *)
(***************************************************************************)
\* Software tags an image file may carry (index 0: no Software tag).
SoftwareTags ==
    << <<"A", "d", "o", "b", "e", " ", "P", "h", "o", "t", "o", "s", "h", "o", "p",
         " ", "2", "5", ".", "0", " ">>,
       <<"M", "i", "d", "j", "o", "u", "r", "n", "e", "y", " ", "v", "6">>,
       <<"H", "D", "R", "+", " ", "1", ".", "0", ".", "5">> >>

SampleUuid ==
    <<"3", "f", "2", "5", "0", "4", "e", "0", "-", "4", "F", "8", "9", "-",
      "1", "1", "d", "3", "-", "9", "a", "0", "c", "-",
      "0", "3", "0", "5", "E", "8", "2", "C", "3", "3", "0", "1">>

\* original_filename values: the default "", a plain name, a name carrying a
\* UUID after a prefix, and a name whose last group has a non-hex character.
FileNames ==
    << <<>>,
       <<"p", "h", "o", "t", "o", "_", "0", "1", ".", "j", "p", "g">>,
       <<"P", "I", "N", "I", "T", "-">> \o SampleUuid \o <<".", "j", "p", "g">>,
       SubSeq(SampleUuid, 1, 35) \o <<"g", ".", "j", "p", "g">> >>

\* (width, height) of the images drawn.
Sizes == {<<1024, 1024>>, <<1024, 768>>, <<800, 800>>}

\* What piexif finds in the file: tags of the 0th, Exif and GPS IFDs.  Other
\* stands for any tag the engine does not read; corrupt for a file piexif.load
\* raises on (a PNG, a damaged segment).
ExifFiles ==
    [Make : BOOLEAN, Software : 0..Len(SoftwareTags), Other : BOOLEAN,
     DateTimeOriginal : BOOLEAN, GPS : BOOLEAN, corrupt : {FALSE}]
    \cup {[Make |-> TRUE, Software |-> 1, Other |-> TRUE,
           DateTimeOriginal |-> TRUE, GPS |-> TRUE, corrupt |-> TRUE]}

EmptyExif ==
    [Make |-> FALSE, Software |-> 0, Other |-> FALSE,
     DateTimeOriginal |-> FALSE, GPS |-> FALSE, corrupt |-> FALSE]

Requests ==
    [size : Sizes, decodable : BOOLEAN, exif : ExifFiles,
     original_filename : DOMAIN FileNames, secure_capture_flag : BOOLEAN]

(***************************************************************************)
(* Helpers of analyze_image                                                *)
(***************************************************************************)
\* bytes branch: v.decode(errors="ignore").strip()
_safe_decode(v) == Strip(v)

\* piexif.load(image_path), {} when it raises
_extract_exif(file) == IF file.corrupt THEN EmptyExif ELSE file

_get_software(exif) ==
    _safe_decode(IF exif.Software = 0 THEN Unknown ELSE SoftwareTags[exif.Software])

_get_datetime_original_known(exif) == exif.DateTimeOriginal

_gps_present(exif) == exif.GPS

\* The regular expression 8-4-4-4-12 hexadecimal digits, matched at offset i.
UuidDashes == {9, 14, 19, 24}
UuidLen == 36
UuidAt(s, i) ==
    /\ i + UuidLen - 1 <= Len(s)
    /\ \A k \in 1..UuidLen :
          IF k \in UuidDashes THEN s[i + k - 1] = "-"
          ELSE s[i + k - 1] \in HexDigits

\* re.search(...).group(0), "" when there is no match or no filename
_uuid_from_filename(filename) ==
    LET hits == {i \in DOMAIN filename : UuidAt(filename, i)}
    IN  IF filename = <<>> \/ hits = {} THEN <<>>
        ELSE LET i == CHOOSE h \in hits : \A g \in hits : h <= g
             IN  SubSeq(filename, i, i + UuidLen - 1)

compute_metadata_integrity(exif_present, gps_present, datetime_present, software_known) ==
    LET s1 == IF ~exif_present THEN 100 - 30 ELSE 100
        s2 == IF ~gps_present THEN s1 - 20 ELSE s1
        s3 == IF ~datetime_present THEN s2 - 20 ELSE s2
        s4 == IF ~software_known THEN s3 - 10 ELSE s3
    IN  Max(0, Min(100, s4))

SquareSizes == {512, 768, 1024, 1536}

AiScoreMutNoSquare(width, height, exif_present, software) ==
    LET a2 == IF ~exif_present THEN 20 ELSE 0
        a3 == IF \E x \in GenerativeTools : Contains(x, Lower(software))
              THEN a2 + 40 ELSE a2
    IN  Min(100, a3)
AiScore(width, height, exif_present, software) ==
    LET a1 == IF width = height /\ width \in SquareSizes THEN 25 ELSE 0
        a2 == IF ~exif_present THEN a1 + 20 ELSE a1
        a3 == IF \E x \in GenerativeTools : Contains(x, Lower(software))
              THEN a2 + 40 ELSE a2
    IN  Min(100, a3)

(***************************************************************************)
(* analyze_image, lines 128-152: the locals derived from the file's        *)
(* metadata, the filename and the flag                                     *)
(***************************************************************************)
Locals(r) ==
    LET exif == _extract_exif(r.exif)
        exif_present == \/ exif.Make \/ exif.Software # 0 \/ exif.Other
                        \/ exif.DateTimeOriginal \/ exif.GPS
        software == _get_software(exif)
        uuid_hint == _uuid_from_filename(FileNames[r.original_filename])
    IN  [exif_present |-> exif_present,
         software |-> software,
         software_lower |-> Lower(software),   \* software.lower(), lines 150, 190
         make_model_known |-> exif.Make,
         gps_present |-> _gps_present(exif),
         datetime_present |-> _get_datetime_original_known(exif),
         software_known |-> (software # Unknown),
         uuid_hint |-> uuid_hint,
         uuid_embedded |-> (uuid_hint # <<>> \/ r.secure_capture_flag),
         ai_score |-> AiScore(r.size[1], r.size[2], exif_present, software)]

\* Lines 165-172.
ChainStatus(uuid_embedded) ==
    IF uuid_embedded THEN "Intact" ELSE "Not Verifiable"

\* Lines 185-197, each driver by a short name, in the order appended.
RiskDrivers(l, tamper_prob) ==
    LET d1 == IF ~l.exif_present THEN <<"exif_missing">> ELSE <<>>
        d2 == IF ~l.gps_present THEN <<"gps_missing">> ELSE <<>>
        d3 == IF l.software_known
                 /\ \E x \in EditingTools : Contains(x, l.software_lower)
              THEN <<"editing_software">> ELSE <<>>
        d4 == IF tamper_prob >= 60 THEN <<"ela_inconsistent">> ELSE <<>>
        d5 == IF l.ai_score >= 50 THEN <<"ai_signals">> ELSE <<>>
        all == d1 \o d2 \o d3 \o d4 \o d5
    IN  IF all = <<>> THEN <<"no_strong_indicators">> ELSE all

\* Lines 157-282: the dict returned, from the locals, the hash, the flag and
\* the tampering probability _ela_metrics returned.
Report(r, l, sha256, tamper_prob) ==
    LET meta_score == compute_metadata_integrity(l.exif_present, l.gps_present,
                          l.datetime_present, l.software_known)
        secure_bonus == IF l.uuid_embedded THEN SecureBonus ELSE 0
        authenticity_score ==
            compute_authenticity_score(meta_score, tamper_prob, l.ai_score, secure_bonus)
        risk == risk_from_score(authenticity_score)
    IN  [generated_at |-> "today",
         scores |-> [overall_risk |-> authenticity_score,
                     overall_label |-> risk[1],
                     metadata_score |-> meta_score,
                     tampering_score |-> tamper_prob,
                     ai_score |-> l.ai_score],
         colors |-> [risk_key |-> risk[2]],
         image_overview |->
             [resolution |-> r.size,
              compression_artifacts |->
                  IF tamper_prob >= 70 THEN "High"
                  ELSE IF tamper_prob >= 40 THEN "Moderate" ELSE "Low",
              sha256 |-> sha256,
              uuid |-> IF l.uuid_hint # <<>> THEN l.uuid_hint
                       ELSE IF l.uuid_embedded THEN <<"secure capture">>
                       ELSE <<"Not detected">>],
         capture |->
             [chain_of_custody_status |->
                  ChainStatus(l.uuid_embedded),
              secure_capture |-> l.uuid_embedded],
         exif_summary |->
             [device_known |-> l.make_model_known,
              datetime_known |-> l.datetime_present,
              software |-> l.software,
              gps_present |-> l.gps_present,
              exif_present |-> l.exif_present],
         tampering |-> [probability |-> tamper_prob],
         ai_detection |->
             [ai_generated_likelihood |-> l.ai_score,
              label |-> IF l.ai_score >= 50 THEN "Likely AI-assisted"
                        ELSE "Not fully synthetic"],
         duplicate_check |-> [enabled |-> FALSE, reuse_risk |-> "Not Implemented"],
         geo_time |-> [enabled |-> FALSE, geo_time_score |-> "Not Implemented"],
         risk_drivers |-> RiskDrivers(l, tamper_prob),
         recommendation |->
             IF risk[1] \in {"Medium-High Risk", "High Fraud Risk"}
             THEN "enhanced review" ELSE "standard validation"]

(***************************************************************************)
(* analyze_image as steps.  A step that raises ends the call: nothing in   *)
(* analyze_image or _ela_metrics catches, except _extract_exif and the     *)
(* os.remove of the scratch file.                                          *)
(***************************************************************************)
FatalSteps == {"open", "hash", "ela"}

\* What the call of _ela_metrics on line 154 hands back: the probability, or
\* the exception passing through analyze_image.
ElaCallMutSwallow(ok, t) ==
    [raised |-> FALSE, tampering_probability |-> IF ok THEN t ELSE 0]
ElaCall(ok, t) ==
    IF ok THEN [raised |-> FALSE, tampering_probability |-> t]
    ELSE [raised |-> TRUE, tampering_probability |-> 0]

NoLocals == [size |-> <<0, 0>>, sha256 |-> "", derived |-> None]

CallIdle ==
    /\ req = [size |-> <<0, 0>>, decodable |-> FALSE, exif |-> EmptyExif,
              original_filename |-> 1, secure_capture_flag |-> FALSE]
    /\ pc = "idle" /\ loc = NoLocals /\ result = None /\ failed = {}

CallInit ==
    /\ req \in Requests
    /\ pc = "start" /\ loc = NoLocals /\ result = None /\ failed = {}

\* Lines 122-125: Image.open and the size; an unreadable file raises.
OpenImage ==
    /\ pc = "start"
    /\ IF req.decodable
       THEN /\ pc' = "opened"
            /\ loc' = [loc EXCEPT !.size = req.size]
            /\ UNCHANGED failed
       ELSE /\ pc' = "raised"
            /\ failed' = failed \cup {"open"}
            /\ UNCHANGED loc
    /\ UNCHANGED <<req, result>>

\* Line 126: _sha256_file; an I/O error while reading raises.
HashFile ==
    /\ pc = "opened"
    /\ \E ok \in BOOLEAN :
          IF ok
          THEN /\ pc' = "hashed"
               /\ loc' = [loc EXCEPT !.sha256 = "sha256(file)"]
               /\ UNCHANGED failed
          ELSE /\ pc' = "raised"
               /\ failed' = failed \cup {"hash"}
               /\ UNCHANGED loc
    /\ UNCHANGED <<req, result>>

\* Lines 128-152: metadata, provenance token and AI heuristic.  A file piexif
\* cannot parse is read as a file without metadata, and the call goes on.
ExtractMetadata ==
    /\ pc = "hashed"
    /\ pc' = "extracted"
    /\ loc' = [loc EXCEPT !.derived = Some(Locals(req))]
    /\ failed' = IF req.exif.corrupt THEN failed \cup {"exif"} ELSE failed
    /\ UNCHANGED <<req, result>>

\* Lines 154-282: _ela_metrics, then the scores and the returned dict.  The
\* probability is any integer _ela_metrics can return: it rounds a value that
\* is at least 0 and capped at 100 (TamperProb).
ElaAndReturn ==
    /\ pc = "extracted"
    /\ \E ok \in BOOLEAN :
       \E t \in IF ok THEN 0..MaxScore ELSE {0} :
          LET e == ElaCall(ok, t)
          IN  /\ failed' = IF ok THEN failed ELSE failed \cup {"ela"}
              /\ IF e.raised
                 THEN pc' = "raised" /\ UNCHANGED result
                 ELSE /\ pc' = "returned"
                      /\ \E l \in loc.derived :
                            result' = Some(Report(req, l, loc.sha256,
                                                  e.tampering_probability))
    /\ UNCHANGED <<req, loc>>

(***************************************************************************)
(* _ela_metrics line by line, for calls running at the same time (one      *)
(* Streamlit session each).  Call p analyses its own upload, image p.      *)
(* A source line is one step; a finer grain (a save seen half written)     *)
(* only adds interleavings to the ones below.  Besides what the calls do   *)
(* to each other, a line may raise on its own (a read error, no memory).   *)
(***************************************************************************)
NProcs == 2
Procs == 1..NProcs

\* app.py line 96: os.path.join("uploads", uploaded.name)
ImagePath(p) == <<"uploads", <<"upload", p>> >>

\* Line 66: os.path.join(os.path.dirname(image_path), "_tmp_recompress.jpg")
TmpPath(image_path) == <<image_path[1], "_tmp_recompress.jpg">>

ScratchPaths == {TmpPath(ImagePath(p)) : p \in Procs}

ConcIdle == ppc = <<>> /\ fs = <<>> /\ recomp = <<>> /\ cause = <<>>

ConcInit ==
    /\ ppc = [p \in Procs |-> "start"]
    /\ fs = [f \in ScratchPaths |-> None]
    /\ recomp = [p \in Procs |-> None]
    /\ cause = [p \in Procs |-> "none"]

Raise(p, why) ==
    /\ ppc' = [ppc EXCEPT ![p] = "raised"]
    /\ cause' = [cause EXCEPT ![p] = why]

\* Line 65: Image.open(image_path).convert("RGB")
ElaOpen(p) ==
    /\ ppc[p] = "start"
    /\ \/ ppc' = [ppc EXCEPT ![p] = "opened"] /\ UNCHANGED cause
       \/ Raise(p, "decode")
    /\ UNCHANGED <<fs, recomp>>

\* Lines 66-67: img.save(tmp, "JPEG", quality=90) creates or overwrites tmp.
ElaSave(p) ==
    /\ ppc[p] = "opened"
    /\ fs' = [fs EXCEPT ![TmpPath(ImagePath(p))] = Some(p)]
    /\ ppc' = [ppc EXCEPT ![p] = "saved"]
    /\ UNCHANGED <<recomp, cause>>

\* Line 68: Image.open(tmp).convert("RGB") loads whatever tmp holds now.
ElaReopen(p) ==
    /\ ppc[p] = "saved"
    /\ IF fs[TmpPath(ImagePath(p))] = None
       THEN Raise(p, "scratch file missing") /\ UNCHANGED recomp
       ELSE \/ /\ recomp' = [recomp EXCEPT ![p] = fs[TmpPath(ImagePath(p))]]
               /\ ppc' = [ppc EXCEPT ![p] = "reopened"]
               /\ UNCHANGED cause
            \/ Raise(p, "read error") /\ UNCHANGED recomp
    /\ UNCHANGED fs

\* Lines 70-71: ImageChops.difference and the brightness enhancement.
ElaDiff(p) ==
    /\ ppc[p] = "reopened"
    /\ \/ ppc' = [ppc EXCEPT ![p] = "diffed"] /\ UNCHANGED cause
       \/ Raise(p, "difference failed")
    /\ UNCHANGED <<fs, recomp>>

\* Lines 73-75: the array, its mean and its 95th percentile.
ElaStats(p) ==
    /\ ppc[p] = "diffed"
    /\ \/ ppc' = [ppc EXCEPT ![p] = "measured"] /\ UNCHANGED cause
       \/ Raise(p, "statistics failed")
    /\ UNCHANGED <<fs, recomp>>

\* Lines 77-88: os.remove(tmp), any exception of it ignored, then the return.
ElaRemoveAndReturn(p) ==
    /\ ppc[p] = "measured"
    /\ fs' = [fs EXCEPT ![TmpPath(ImagePath(p))] = None]
    /\ ppc' = [ppc EXCEPT ![p] = "returned"]
    /\ UNCHANGED <<recomp, cause>>

(***************************************************************************)
(* app.py: the upload form and the Generate Report handler, and the reads  *)
(* of report_generator.build_pdf_report                                    *)
(***************************************************************************)
\* analyze_image's parameters (real_analysis.py line 121) and the one without
\* a default.
AnalyzeParams == {"image_path", "original_filename", "secure_capture_flag"}
AnalyzeRequired == {"image_path"}

\* The keyword arguments of the call in app.py, lines 106-111.
AppCallKwargs == {"path", "original_filename", "secure_capture_flag", "claimed_location"}

\* Python's binding of a keyword-only call: a keyword the function does not
\* declare, or a parameter without default left unfilled, raises TypeError.
UnboundKwargs(kwargs, params, required) == (kwargs \ params) \cup (required \ kwargs)

\* The subscripts app.py applies to the result, lines 117-124, in order.
AppReads ==
    << <<"authenticity", "score">>,
       <<"executive_summary", "overall_finding">>,
       <<"risk_classification", "risk_factors">>,
       <<"tampering">> >>

\* The subscripts build_pdf_report applies to it, lines 18-39, in order (the
\* first ones: the later reads are of the same sub-dicts).
PdfReads ==
    << <<"scores">>, <<"image">>, <<"exif">>, <<"tampering">>, <<"ai">>, <<"chain">>,
       <<"generated_at">>, <<"scores", "label">>, <<"scores", "overall">>,
       <<"image", "type">>, <<"image", "resolution">>, <<"image", "size_mb">>,
       <<"image", "sha256">> >>

\* d[k1][k2]... succeeds.
RECURSIVE HasPath(_, _)
HasPath(d, path) ==
    \/ path = <<>>
    \/ Head(path) \in DOMAIN d /\ HasPath(d[Head(path)], Tail(path))

\* The first subscript of reads that raises KeyError on d, or <<>>.
FirstMissing(d, reads) ==
    LET bad == {i \in DOMAIN reads : ~HasPath(d, reads[i])}
    IN  IF bad = {} THEN <<>>
        ELSE reads[CHOOSE i \in bad : \A j \in bad : i <= j]

\* Lines 102-141 for the uploaded request u: the call, the summary, the PDF.
\* hashOk and elaOk say whether the file read and the ELA step go through,
\* t is the probability the ELA step returns.
GenerateOutcome(u, hashOk, elaOk, t) ==
    LET unbound == UnboundKwargs(AppCallKwargs, AnalyzeParams, AnalyzeRequired)
        analysis == Report(u, Locals(u), "sha256(file)", t)
        appMiss == FirstMissing(analysis, AppReads)
        pdfMiss == FirstMissing(analysis, PdfReads)
    IN  IF unbound # {} THEN [kind |-> "TypeError", at |-> unbound]
        ELSE IF ~u.decodable THEN [kind |-> "UnidentifiedImageError", at |-> {}]
        ELSE IF ~hashOk \/ ~elaOk THEN [kind |-> "OSError", at |-> {}]
        ELSE IF appMiss # <<>> THEN [kind |-> "KeyError", at |-> {appMiss}]
        ELSE IF pdfMiss # <<>> THEN [kind |-> "KeyError", at |-> {pdfMiss}]
        ELSE [kind |-> "report", at |-> {}]

ClaimedLocations == {"", "Chennai"}

NoUpload ==
    [file |-> [size |-> <<0, 0>>, decodable |-> FALSE, exif |-> EmptyExif,
               original_filename |-> 1, secure_capture_flag |-> FALSE],
     claimed_location |-> ""]

AppIdle == appPc = "idle" /\ upload = NoUpload /\ outcome = None

AppInit == appPc = "form" /\ upload = NoUpload /\ outcome = None

\* Lines 88-100: a file is uploaded under its own name, the checkbox and the
\* location are set, the file is written to uploads/ and shown.
Upload ==
    /\ appPc = "form"
    /\ \E f \in Requests, c \in ClaimedLocations :
          /\ FileNames[f.original_filename] # <<>>
          /\ upload' = [file |-> f, claimed_location |-> c]
    /\ appPc' = "uploaded"
    /\ UNCHANGED outcome

\* Lines 102-141: the Generate Report button.
GenerateReport ==
    /\ appPc = "uploaded"
    /\ \E hashOk \in BOOLEAN, elaOk \in BOOLEAN, t \in 0..MaxScore :
          outcome' = Some(GenerateOutcome(upload.file, hashOk, elaOk, t))
    /\ appPc' = "ended"
    /\ UNCHANGED upload

\* Streamlit runs the script again on the next interaction: the form is back.
Rerun ==
    /\ appPc = "ended"
    /\ appPc' = "form"
    /\ upload' = NoUpload
    /\ outcome' = None

(***************************************************************************)
(* Specifications                                                          *)
(***************************************************************************)
InitEla == ElaInit /\ RiskIdle /\ AuthIdle /\ CallIdle /\ ConcIdle /\ AppIdle
NextEla == ElaCompute /\ UNCHANGED <<riskVars, authVars, callVars, concVars, appVars>>
SpecEla == InitEla /\ [][NextEla]_vars

InitRisk == ElaIdle /\ RiskInit /\ AuthIdle /\ CallIdle /\ ConcIdle /\ AppIdle
NextRisk == RiskClassify /\ UNCHANGED <<elaVars, authVars, callVars, concVars, appVars>>
SpecRisk == InitRisk /\ [][NextRisk]_vars

InitAuth == ElaIdle /\ RiskIdle /\ AuthInit /\ CallIdle /\ ConcIdle /\ AppIdle
NextAuth == AuthCompute /\ UNCHANGED <<elaVars, riskVars, callVars, concVars, appVars>>
SpecAuth == InitAuth /\ [][NextAuth]_vars

Init == ElaIdle /\ RiskIdle /\ AuthIdle /\ CallInit /\ ConcIdle /\ AppIdle
Next ==
    \/ OpenImage /\ UNCHANGED <<elaVars, riskVars, authVars, concVars, appVars>>
    \/ HashFile /\ UNCHANGED <<elaVars, riskVars, authVars, concVars, appVars>>
    \/ ExtractMetadata /\ UNCHANGED <<elaVars, riskVars, authVars, concVars, appVars>>
    \/ ElaAndReturn /\ UNCHANGED <<elaVars, riskVars, authVars, concVars, appVars>>
Spec == Init /\ [][Next]_vars

InitConc == ElaIdle /\ RiskIdle /\ AuthIdle /\ CallIdle /\ ConcInit /\ AppIdle
NextConc ==
    \E p \in Procs :
        \/ ElaOpen(p) /\ UNCHANGED <<elaVars, riskVars, authVars, callVars, appVars>>
        \/ ElaSave(p) /\ UNCHANGED <<elaVars, riskVars, authVars, callVars, appVars>>
        \/ ElaReopen(p) /\ UNCHANGED <<elaVars, riskVars, authVars, callVars, appVars>>
        \/ ElaDiff(p) /\ UNCHANGED <<elaVars, riskVars, authVars, callVars, appVars>>
        \/ ElaStats(p) /\ UNCHANGED <<elaVars, riskVars, authVars, callVars, appVars>>
        \/ ElaRemoveAndReturn(p) /\ UNCHANGED <<elaVars, riskVars, authVars, callVars, appVars>>
SpecConc == InitConc /\ [][NextConc]_vars

InitApp == ElaIdle /\ RiskIdle /\ AuthIdle /\ CallIdle /\ ConcIdle /\ AppInit
NextApp ==
    \/ Upload /\ UNCHANGED <<elaVars, riskVars, authVars, callVars, concVars>>
    \/ GenerateReport /\ UNCHANGED <<elaVars, riskVars, authVars, callVars, concVars>>
    \/ Rerun /\ UNCHANGED <<elaVars, riskVars, authVars, callVars, concVars>>
SpecApp == InitApp /\ [][NextApp]_vars

(***************************************************************************)
(* Properties                                                              *)
(***************************************************************************)

\* C1: every tampering_probability _ela_metrics returns lies in [5,95]:
\* never below 5 (never 0) and never above 95 (never 100).
ElaProbabilityWithinBounds ==
    \A e \in ela : 5 <= e.tampering_probability /\ e.tampering_probability <= 95

\* The level at which analyze_image reports ELA tamper evidence (line 192).
OverrideThreshold == 60
\* The cutoff of the top tier of risk_from_score (line 113).
TopTier == 90

\* C2: for every metadata score, AI score and bonus, a tamper probability at
\* or above the override threshold gives an authenticity score below the top
\* tier, so the label is never "Highly Authentic".
TamperOverrideCaps ==
    \A f \in authOut :
        \A t \in OverrideThreshold..MaxScore :
            /\ f[t] < TopTier
            /\ risk_from_score(f[t])[1] # "Highly Authentic"

\* C2 witness: the most favourable inputs at the threshold (perfect metadata,
\* no AI signal, the bonus) were scored, and gave 80.
TamperOverrideWitness ==
    /\ authIn = [meta_score |-> 100, ai_score |-> 0, secure_bonus |-> SecureBonus]
    /\ \E f \in authOut : f[OverrideThreshold] = 80

\* The same request with only secure_capture_flag flipped.
Flipped(r) == [r EXCEPT !.secure_capture_flag = ~@]

\* The dict analyze_image returns for request r when _ela_metrics returns t.
ReportFor(r, t) == Report(r, Locals(r), loc.sha256, t)

\* The entries of FileNames built around SampleUuid.
NamesWithToken == {3}

\* C3 as stated: two runs on the same bytes and filename that differ only in
\* the flag: score(flag) >= score(no flag), and the chain statuses differ.
SecureCaptureEffect ==
    \A r \in result :
        LET other    == ReportFor(Flipped(req), r.tampering.probability)
            withFlag == IF req.secure_capture_flag THEN r ELSE other
            without  == IF req.secure_capture_flag THEN other ELSE r
        IN  /\ withFlag.scores.overall_risk >= without.scores.overall_risk
            /\ withFlag.capture.chain_of_custody_status
                 # without.capture.chain_of_custody_status

\* C3 amended: score(flag) >= score(no flag) for every filename; the chain
\* statuses differ when the filename carries no UUID token, and are both
\* "Intact" when it does.
SecureCaptureEffectAmended ==
    \A r \in result :
        LET other    == ReportFor(Flipped(req), r.tampering.probability)
            withFlag == IF req.secure_capture_flag THEN r ELSE other
            without  == IF req.secure_capture_flag THEN other ELSE r
        IN  /\ withFlag.scores.overall_risk >= without.scores.overall_risk
            /\ withFlag.capture.chain_of_custody_status = "Intact"
            /\ IF req.original_filename \in NamesWithToken
               THEN without.capture.chain_of_custody_status = "Intact"
               ELSE without.capture.chain_of_custody_status = "Not Verifiable"

\* C3 witness: a flagged run on a filename without a token returned, and its
\* score is above that of the unflagged run.
SecureCaptureWitness ==
    /\ req.secure_capture_flag
    /\ req.original_filename \notin NamesWithToken
    /\ \E r \in result :
          /\ r.capture.chain_of_custody_status = "Intact"
          /\ r.scores.overall_risk
               > ReportFor(Flipped(req), r.tampering.probability).scores.overall_risk

\* C4: each call's scratch file is its own: a call that returns has loaded
\* its own recompressed image (the metrics it has when it runs alone), no
\* call loads another's, and none fails for a scratch file that is gone.
ScratchIsolation ==
    \A p \in Procs :
        /\ ppc[p] = "returned" => recomp[p] = Some(p)
        /\ \A q \in recomp[p] : q = p
        /\ cause[p] # "scratch file missing"

\* C5: once a call has ended, by returning or by raising, the scratch file it
\* wrote no longer exists.
ScratchRemovedAfterCall ==
    \A p \in Procs :
        ppc[p] \in {"returned", "raised"} => fs[TmpPath(ImagePath(p))] # Some(p)

LabelRank(label) ==
    CASE label = "Highly Authentic" -> 3
      [] label = "Low Risk" -> 2
      [] label = "Medium-High Risk" -> 1
      [] label = "High Fraud Risk" -> 0

\* C6: every score 0..100 has exactly the tier of the cutoffs 90, 75, 60
\* (>= 90 top, 75..89 second, 60..74 third, < 60 "High Fraud Risk"), a cutoff
\* in the upper tier and the value below it in the lower, and the tier never
\* gets worse as the score grows.
RiskPartition ==
    \A l \in clsLabel :
        /\ l[1] \in {"Highly Authentic", "Low Risk", "Medium-High Risk", "High Fraud Risk"}
        /\ LabelRank(l[1]) = IF clsScore >= 90 THEN 3
                             ELSE IF clsScore >= 75 THEN 2
                             ELSE IF clsScore >= 60 THEN 1 ELSE 0
        /\ (l[1] = "High Fraud Risk") = (clsScore < 60)
        /\ \A s \in 0..MaxScore :
              s >= clsScore => LabelRank(risk_from_score(s)[1]) >= LabelRank(l[1])

\* C6 witness: the cutoff 90 itself was classified, into the top tier.
RiskPartitionWitness ==
    clsScore = 90 /\ clsLabel = Some(<<"Highly Authentic", "BLUE">>)

\* C7: the metadata score and the AI score are in [0,100] and the overall
\* score is in [5,100], for every request and tamper probability.
ScoresWithinBounds ==
    /\ \A l \in loc.derived : l.ai_score \in 0..100
    /\ \A r \in result :
          /\ r.scores.metadata_score \in 0..100
          /\ r.scores.ai_score \in 0..100
          /\ r.scores.overall_risk \in 5..100

\* C7 witness: a run with perfect metadata, no penalty and the bonus, whose
\* sum 110 was clamped to 100.
ScoresWithinBoundsWitness ==
    \E r \in result :
        /\ r.scores.metadata_score = 100
        /\ r.scores.tampering_score = 0
        /\ r.scores.ai_score = 0
        /\ r.capture.secure_capture
        /\ r.scores.overall_risk = 100

\* The scenario of C8: 1024x1024, no embedded metadata, flag off.
Scenario ==
    /\ req.size = <<1024, 1024>>
    /\ req.exif = EmptyExif
    /\ ~req.secure_capture_flag

\* C8 as stated: in the scenario, for every tamper probability and every
\* filename, the AI score holds the +25 of the square rule, the metadata
\* score is <= 50, the chain status is "Not Verifiable" and the overall score
\* is below 75.
EndToEndScenario ==
    \A r \in result :
        Scenario =>
            /\ r.scores.ai_score = 25 + 20
            /\ r.scores.metadata_score <= 50
            /\ r.capture.chain_of_custody_status = "Not Verifiable"
            /\ r.scores.overall_risk < 75

\* C8 amended: the same, but the chain status is "Not Verifiable" only for a
\* filename without a UUID token; with a token it is "Intact".
EndToEndScenarioAmended ==
    \A r \in result :
        Scenario =>
            /\ r.scores.ai_score = 25 + 20
            /\ r.scores.metadata_score <= 50
            /\ r.scores.overall_risk < 75
            /\ r.scores.overall_label \in {"Medium-High Risk", "High Fraud Risk"}
            /\ IF req.original_filename \in NamesWithToken
               THEN r.capture.chain_of_custody_status = "Intact"
               ELSE r.capture.chain_of_custody_status = "Not Verifiable"

\* C8 witness: the scenario was analysed under a plain filename.
EndToEndScenarioWitness ==
    /\ Scenario
    /\ req.original_filename = 2
    /\ \E r \in result : r.capture.chain_of_custody_status = "Not Verifiable"

\* The metadata score analyze_image gives a file whose metadata is x.
MetaScoreOf(x) ==
    LET l == Locals([req EXCEPT !.exif = x])
    IN  compute_metadata_integrity(l.exif_present, l.gps_present,
                                   l.datetime_present, l.software_known)

\* C9: a record whose software tag names an editing tool scores strictly
\* lower than the same record without the tag, and a record without device
\* make/model scores strictly lower than the same record with them.
MetadataDeductions ==
    \A r \in result :
        LET x == _extract_exif(req.exif)
        IN  /\ ("editing_software" \in {r.risk_drivers[i] : i \in DOMAIN r.risk_drivers}
                  => r.scores.metadata_score < MetaScoreOf([x EXCEPT !.Software = 0]))
            /\ (~x.Make
                  => r.scores.metadata_score < MetaScoreOf([x EXCEPT !.Make = TRUE]))

\* C10: a failure of the open, the hash or the ELA step ends the call with no
\* record; every record returned comes from a call in which none of them
\* failed, and its scores are the ones computed from the signals it reports.
NoFailureBecomesNumber ==
    /\ failed \cap FatalSteps # {} => pc = "raised" /\ result = None
    /\ pc = "raised" => result = None
    /\ \A r \in result :
          /\ pc = "returned"
          /\ failed \cap FatalSteps = {}
          /\ r.scores.tampering_score = r.tampering.probability
          /\ r.scores.metadata_score =
                compute_metadata_integrity(r.exif_summary.exif_present,
                    r.exif_summary.gps_present, r.exif_summary.datetime_known,
                    r.exif_summary.software # Unknown)
          /\ r.scores.overall_risk =
                compute_authenticity_score(r.scores.metadata_score,
                    r.scores.tampering_score, r.scores.ai_score,
                    IF r.capture.secure_capture THEN SecureBonus ELSE 0)

\* C10 witness: the ELA step failed after the open and the hash succeeded,
\* and the call ended without a record.
NoFailureBecomesNumberWitness ==
    pc = "raised" /\ "ela" \in failed /\ result = None /\ loc.derived # None

\* C11: the Generate Report step completes with a report for every readable
\* image, and never ends in an error caused by a keyword analyze_image does
\* not accept or by a result field that app.py or build_pdf_report reads and
\* analyze_image does not produce.
GenerateReportCompletes ==
    \A o \in outcome :
        /\ o.kind \notin {"TypeError", "KeyError"}
        /\ upload.file.decodable => o.kind \in {"report", "OSError"}

====
